---- MODULE Spec2Model ----
(***************************************************************************)
(* The two-tier selection tracker of the Advanced Selection Table plugin   *)
(* (ui/selection_widget.py, class AdvancedSelectionWidget) together with   *)
(* the part of the host layer it talks to: the layer's features, its       *)
(* selection, its editing mode and the signals connected in                *)
(* connect_signals.                                                        *)
(*                                                                         *)
(* Qt delivers a signal by calling the connected slot synchronously.  A    *)
(* handler that the tracker's own host-selection write triggers is shown   *)
(* as a step of its own: the operation stops at selectByIds with the       *)
(* selectionChanged emission pending (sel_event), the handler runs, and    *)
(* the operation continues from pc.  Nothing else can run in between.      *)
(* The other nested handlers (editingStarted, editingStopped,              *)
(* featuresDeleted, itemSelectionChanged) are applied inside the action    *)
(* of the operation that triggers them.                                    *)
(***************************************************************************)
EXTENDS Integers, FiniteSets, Sequences, TLC

\* Feature ids of the layer are 1..MaxFid.
MaxFid == 2

FeatureIds == 1..MaxFid

VARIABLES
    layer_features,         \* ids of the features the layer holds
    layer_selection,        \* layer.selectedFeatureIds()
    layer_editable,         \* layer.isEditable()
    original_selection,     \* BaseSelection (cyan rows)
    highlighted_features,   \* HighlightedSet (yellow rows)
    clipboard_features,     \* list of feature snapshots, each named by its id
    _updating_selection,    \* guard around the tracker's own selectByIds
    _updating_highlights,   \* guard around programmatic row selection
    table_rows,             \* ids carried by the rows of table_widget
    table_selected,         \* ids of the rows selected in table_widget
    cyan_rubber_band,       \* ids whose geometry is in the cyan overlay
    yellow_rubber_band,     \* ids whose geometry is in the yellow overlay
    pc,                     \* where the operation in progress stands
    sel_event,              \* a selectionChanged emission awaits its slot
    fids,                   \* local variable fids of the last consumer
    host_request,           \* the last call a consumer made on the host,
                            \* the outcome of the filter dialog, or the
                            \* highlightChanged a row event emitted
    pre_highlighted,        \* highlighted_features when invert/narrow began
    enabled,                \* the enabled state of the toolbar actions, as
                            \* update_button_states last set it
    last_op,                \* the handler or step that ran last
    before_op,              \* the one that ran before it, for the pairs of
                            \* PairedOps and FollowUps
    selection_dialogs,      \* the plugin's dict layer id -> floating dialog
    selection_docks,        \* the plugin's dict layer id -> dock
    opened                  \* the branch the plugin's last open took

vars == <<layer_features, layer_selection, layer_editable, original_selection,
          highlighted_features, clipboard_features, _updating_selection,
          _updating_highlights, table_rows, table_selected, cyan_rubber_band,
          yellow_rubber_band, pc, sel_event, fids, host_request,
          pre_highlighted, enabled, last_op, before_op, selection_dialogs,
          selection_docks, opened>>

tracker_sets == <<original_selection, highlighted_features>>
table_view == <<table_rows, table_selected>>
rubber_bands == <<cyan_rubber_band, yellow_rubber_band>>
guards == <<_updating_selection, _updating_highlights>>
plugin == <<selection_dialogs, selection_docks, opened>>

\* before_op is kept for the pairs of operations whose composition is of
\* interest: a narrow, an invert or a highlight-all followed by an invert
\* or a highlight-all.
PairedOps == {"reselect_to_highlighted_return", "invert_highlights",
              "highlight_all"}

FollowUps == {"invert_highlights", "highlight_all"}

\* The handlers of one table leave the plugin's dicts alone.
Ran(op) ==
    /\ last_op' = op
    /\ before_op' = IF last_op \in PairedOps /\ op \in FollowUps
                     THEN last_op ELSE "other"
    /\ UNCHANGED plugin

NoRequest == [call |-> "none", ids |-> {}]

\* An empty dict.
NoWidgets == [layer_id \in {} |-> {}]

Min(S) == CHOOSE m \in S : \A n \in S : m <= n

\* layer.getFeatures(request) yields the requested features that exist, in
\* id order; list(...) of it is the sequence of their snapshots.
RECURSIVE getFeatures(_)
getFeatures(S) ==
    IF S = {} THEN <<>>
    ELSE <<Min(S)>> \o getFeatures(S \ {Min(S)})

Range(s) == {s[i] : i \in 1..Len(s)}

\* A get_target_features that prefers the base selection.
get_target_features_base_first(highlighted, original) ==
    IF original # {} THEN original ELSE highlighted

\* get_target_features: highlighted first, then all.
get_target_features(highlighted, original) ==
    IF highlighted # {} THEN highlighted ELSE original

\* A populate_table that requests every feature of the layer.
populate_table_all_features(original, features) == features

\* populate_table: one row per feature of original_selection the layer
\* returns.  table_widget.clear() drops the row selection, and the table's
\* signals are blocked, so no row-selection handler runs.
populate_table(original, features) == original \cap features

\* update_map_highlighting: the cyan band gets original - highlighted, the
\* yellow band gets highlighted, each restricted to what getFeatures returns.
cyan_fids(original, highlighted, features) ==
    (original \ highlighted) \cap features

yellow_fids(highlighted, features) == highlighted \cap features

\* The programmatic re-selection of rows in invert_highlights,
\* select_by_expression and on_editing_mode_changed: a row is selected for
\* every id get_row_for_fid finds.
select_rows(ids, rows) == ids \cap rows

\* An on_table_selection_changed without the _updating_highlights check.
on_table_selection_changed_unguarded(selected, highlighted, updating) ==
    IF selected # highlighted THEN selected ELSE highlighted

\* on_table_selection_changed, as a function of the rows Qt reports selected:
\* the value highlighted_features has afterwards.
on_table_selection_changed(selected, highlighted, updating) ==
    IF updating THEN highlighted
    ELSE IF selected # highlighted THEN selected
    ELSE highlighted

\* The highlights left as they are when the base selection is replaced.
kept_highlights_unfiltered(highlighted, original) == highlighted

\* highlighted_features &= original_selection.
kept_highlights(highlighted, original) == highlighted \cap original

\* An on_layer_selection_changed without the _updating_selection check.
selection_update_unguarded(updating, new_selection, original) ==
    new_selection # original

\* An on_layer_selection_changed that skips an empty selection, the way
\* refresh_table does.
selection_update_nonempty_only(updating, new_selection, original) ==
    ~updating /\ new_selection # original /\ new_selection # {}

\* on_layer_selection_changed acts when its guard is clear and the layer's
\* selection differs from original_selection.
selection_update_needed(updating, new_selection, original) ==
    ~updating /\ new_selection # original

\* A reselect_to_highlighted without its early return.
nothing_to_reselect_never(highlighted) == FALSE

\* reselect_to_highlighted returns at once when nothing is highlighted.
nothing_to_reselect(highlighted) == highlighted = {}

\* original_selection bound to the highlighted set itself, not to a copy: the
\* clear() that follows empties it too.
narrowed_uncopied(highlighted) == {}

\* reselect_to_highlighted: the new original_selection, a copy of
\* highlighted_features taken before that set is cleared.
narrowed(highlighted) == highlighted

\* highlighted_features after clearSelection() inside a block that has set
\* _updating_highlights: the row-selection handler is called when rows were
\* selected, with the guard set.
after_clearSelection(selected, highlighted) ==
    IF selected # {}
    THEN on_table_selection_changed({}, highlighted, TRUE)
    ELSE highlighted

\* highlighted_features after the rows sel have been selected one by one in
\* such a block.
after_select(sel, highlighted) ==
    IF sel # {}
    THEN on_table_selection_changed(sel, highlighted, TRUE)
    ELSE highlighted

\* A removal that keeps the deleted ids and drops the others.
removed_complement(ids, deleted) == ids \cap deleted

\* ids -= deleted, as on_features_deleted and delete_features apply it to
\* original_selection and to highlighted_features.
removed(ids, deleted) == ids \ deleted

\* A delete_features that removes the ids whatever the host answers.
after_delete_optimistic(ids, target, deleted) == removed(ids, target)

\* delete_features: one of the two sets after layer.deleteFeatures has
\* answered; the ids go only in the branch of a true answer.
after_delete(ids, target, deleted) ==
    IF deleted THEN removed(ids, target) ELSE ids

\* An update_button_states that enables paste without looking at the
\* editing mode.
update_button_states_paste_uneditable(highlighted, original, clipboard, is_editable) ==
    [action_clear_highlights |-> highlighted # {},
     action_highlight_all    |-> original # {},
     action_reselect         |-> highlighted # {},
     action_select_expr      |-> original # {},
     action_invert           |-> original # {},
     action_delete |-> (highlighted # {} \/ original # {}) /\ is_editable,
     action_cut    |-> (highlighted # {} \/ original # {}) /\ is_editable,
     action_copy   |-> highlighted # {} \/ original # {},
     action_paste  |-> clipboard # <<>>,
     action_zoom   |-> highlighted # {} \/ original # {}]

\* update_button_states: the setEnabled calls, one field per action.
update_button_states(highlighted, original, clipboard, is_editable) ==
    [action_clear_highlights |-> highlighted # {},
     action_highlight_all    |-> original # {},
     action_reselect         |-> highlighted # {},
     action_select_expr      |-> original # {},
     action_invert           |-> original # {},
     action_delete |-> (highlighted # {} \/ original # {}) /\ is_editable,
     action_cut    |-> (highlighted # {} \/ original # {}) /\ is_editable,
     action_copy   |-> highlighted # {} \/ original # {},
     action_paste  |-> clipboard # <<>> /\ is_editable,
     action_zoom   |-> highlighted # {} \/ original # {}]

\* The toolbar after a handler: set from the state the handler leaves when
\* the handler has called update_button_states (called), as it was
\* otherwise.
Buttons(called) ==
    enabled' =
      IF called
      THEN update_button_states(highlighted_features', original_selection',
                                clipboard_features', layer_editable')
      ELSE enabled

Idle == pc = "idle" /\ ~sel_event

\* A constructor that starts with every selected feature highlighted.
constructed_highlighted(selected) ==
    [original_selection   |-> selected,
     highlighted_features |-> selected,
     clipboard_features   |-> <<>>,
     _updating_selection  |-> FALSE,
     _updating_highlights |-> FALSE]

\* The fields __init__ assigns, selected being layer.selectedFeatureIds()
\* at that moment.
constructed(selected) ==
    [original_selection   |-> selected,
     highlighted_features |-> {},
     clipboard_features   |-> <<>>,
     _updating_selection  |-> FALSE,
     _updating_highlights |-> FALSE]

Init ==
    /\ layer_features \in SUBSET FeatureIds
    /\ layer_selection \in (SUBSET layer_features) \ {{}}
    /\ layer_editable \in BOOLEAN
    /\ original_selection = constructed(layer_selection).original_selection
    /\ highlighted_features =
         constructed(layer_selection).highlighted_features
    /\ clipboard_features = constructed(layer_selection).clipboard_features
    /\ _updating_selection =
         constructed(layer_selection)._updating_selection
    /\ _updating_highlights =
         constructed(layer_selection)._updating_highlights
    /\ table_rows = populate_table(original_selection, layer_features)
    /\ table_selected = {}
    /\ cyan_rubber_band =
         cyan_fids(original_selection, highlighted_features, layer_features)
    /\ yellow_rubber_band = yellow_fids(highlighted_features, layer_features)
    /\ pc = "idle"
    /\ sel_event = FALSE
    /\ fids = {}
    /\ host_request = NoRequest
    /\ pre_highlighted = {}
    /\ enabled = update_button_states(highlighted_features,
                                      original_selection,
                                      clipboard_features, layer_editable)
    /\ last_op = "__init__"
    /\ before_op = "other"
    /\ selection_dialogs = NoWidgets
    /\ selection_docks = NoWidgets
    /\ opened = "none"

\* Bookkeeping shared by the operations that are not consumers and do not
\* start an invert or a narrow.
Plain(op) ==
    /\ Ran(op)
    /\ fids' = {}
    /\ host_request' = NoRequest
    /\ pre_highlighted' = {}

\* A handler that refreshes and emits on every event it is not guarded
\* against.
highlight_change_uncompared(selected, highlighted, updating) == ~updating

\* on_table_selection_changed goes into its update branch: it is not
\* guarded and the ids of the selected rows differ from
\* highlighted_features.
highlight_change(selected, highlighted, updating) ==
    ~updating /\ selected # highlighted

\* What on_table_selection_changed emits for a changed row selection:
\* highlightChanged with the new highlighted_features, or nothing.
highlightChanged(selected, highlighted, updating) ==
    IF highlight_change(selected, highlighted, updating)
    THEN [call |-> "highlightChanged", ids |-> selected]
    ELSE NoRequest

\* A row-selection event: Qt has changed the selected rows to sel and, when
\* that is a change, emits itemSelectionChanged.  host_request records the
\* highlightChanged the handler emits.
RowSelection(sel, op) ==
    /\ Idle
    /\ table_selected' = sel
    /\ highlighted_features' =
         IF sel # table_selected
         THEN on_table_selection_changed(sel, highlighted_features,
                                         _updating_highlights)
         ELSE highlighted_features
    /\ IF sel # table_selected
          /\ highlight_change(sel, highlighted_features,
                              _updating_highlights)
       THEN /\ cyan_rubber_band' =
                 cyan_fids(original_selection, sel, layer_features)
            /\ yellow_rubber_band' = yellow_fids(sel, layer_features)
       ELSE UNCHANGED rubber_bands
    /\ host_request' =
         IF sel # table_selected
         THEN highlightChanged(sel, highlighted_features,
                               _updating_highlights)
         ELSE NoRequest
    /\ Ran(op)
    /\ fids' = {}
    /\ pre_highlighted' = {}
    /\ UNCHANGED <<layer_features, layer_selection, layer_editable,
                   original_selection, clipboard_features, guards,
                   table_rows, pc, sel_event>>
    /\ Buttons(sel # table_selected
               /\ highlight_change(sel, highlighted_features,
                                   _updating_highlights))

\* Plain click on the row of x.
Click ==
    \E x \in table_rows : RowSelection({x}, "click")

\* Ctrl+click on the row of x.
CtrlClick ==
    \E x \in table_rows :
        RowSelection(IF x \in table_selected THEN table_selected \ {x}
                     ELSE table_selected \cup {x}, "ctrl_click")

\* Shift+click: the span of rows between Qt's anchor row and the clicked
\* row, a and x being the ids of the first and the last row of the span.
ShiftClick ==
    \E a \in table_rows, x \in table_rows :
        /\ a <= x
        /\ RowSelection({r \in table_rows : a <= r /\ r <= x}, "shift_click")

\* The four derived views right after on_editing_mode_changed has run:
\* populate_table, the rows of the preserved highlights re-selected under
\* _updating_highlights, and update_map_highlighting.
on_editing_mode_changed(original, highlighted, features) ==
    [rows     |-> populate_table(original, features),
     selected |-> select_rows(highlighted,
                              populate_table(original, features)),
     cyan     |-> cyan_fids(original, highlighted, features),
     yellow   |-> yellow_fids(highlighted, features)]

\* The view refresh that ends reselect_to_highlighted, refresh_table,
\* on_layer_selection_changed and on_features_deleted: populate_table
\* followed by update_map_highlighting.
Repopulated(original, highlighted, features) ==
    /\ table_rows' = populate_table(original, features)
    /\ table_selected' = {}
    /\ cyan_rubber_band' = cyan_fids(original, highlighted, features)
    /\ yellow_rubber_band' = yellow_fids(highlighted, features)

clear_highlights ==
    /\ Idle
    /\ IF highlighted_features = {}
       THEN UNCHANGED <<highlighted_features, table_view, rubber_bands>>
       ELSE /\ highlighted_features' =
                 IF table_selected # {}
                 THEN on_table_selection_changed({}, {},
                                                 _updating_highlights)
                 ELSE {}
            /\ table_selected' = {}
            /\ cyan_rubber_band' =
                 cyan_fids(original_selection, highlighted_features',
                           layer_features)
            /\ yellow_rubber_band' =
                 yellow_fids(highlighted_features', layer_features)
            /\ UNCHANGED table_rows
    /\ host_request' =
         IF highlighted_features # {} /\ table_selected # {}
         THEN highlightChanged({}, {}, _updating_highlights)
         ELSE NoRequest
    /\ Ran("clear_highlights")
    /\ fids' = {}
    /\ pre_highlighted' = {}
    /\ UNCHANGED <<layer_features, layer_selection, layer_editable,
                   original_selection, clipboard_features, guards,
                   pc, sel_event>>
    /\ Buttons(highlighted_features # {})

\* selectAll() selects every row; when that changes the row selection the
\* row-selection handler runs, and _updating_highlights is not set here.
highlight_all ==
    /\ Idle
    /\ highlighted_features' =
         IF table_rows # table_selected
         THEN on_table_selection_changed(table_rows, original_selection,
                                         _updating_highlights)
         ELSE original_selection
    /\ table_selected' = table_rows
    /\ cyan_rubber_band' =
         cyan_fids(original_selection, highlighted_features', layer_features)
    /\ yellow_rubber_band' =
         yellow_fids(highlighted_features', layer_features)
    /\ host_request' =
         IF table_rows # table_selected
         THEN highlightChanged(table_rows, original_selection,
                               _updating_highlights)
         ELSE NoRequest
    /\ Ran("highlight_all")
    /\ fids' = {}
    /\ pre_highlighted' = {}
    /\ UNCHANGED <<layer_features, layer_selection, layer_editable,
                   original_selection, clipboard_features, guards,
                   table_rows, pc, sel_event>>
    /\ Buttons(TRUE)

\* The new highlighted_features of invert_highlights.
inverted(original, highlighted) == original \ highlighted

invert_highlights ==
    /\ Idle
    /\ IF original_selection = {}
       THEN UNCHANGED <<highlighted_features, table_view, rubber_bands>>
       ELSE LET h1 == inverted(original_selection, highlighted_features)
                h2 == after_clearSelection(table_selected, h1)
                sel == select_rows(h2, table_rows)
            IN /\ table_selected' = sel
               /\ highlighted_features' = after_select(sel, h2)
            /\ cyan_rubber_band' =
                 cyan_fids(original_selection, highlighted_features',
                           layer_features)
            /\ yellow_rubber_band' =
                 yellow_fids(highlighted_features', layer_features)
            /\ UNCHANGED table_rows
    /\ Ran("invert_highlights")
    /\ fids' = {}
    /\ host_request' = NoRequest
    /\ pre_highlighted' = highlighted_features
    /\ UNCHANGED <<layer_features, layer_selection, layer_editable,
                   original_selection, clipboard_features, guards,
                   pc, sel_event>>
    /\ Buttons(original_selection # {})

DialogOutcomes == {"rejected", "empty", "parser_error", "accepted"}

\* The ids of the features of original_selection the expression accepts;
\* P holds the ids, among those evaluated, on which the host evaluates the
\* expression to true.
matching_fids(original, features, P) == (original \cap features) \cap P

\* A select_by_expression that goes on after a parser error.
expression_applies_unparsed(outcome) ==
    outcome \in {"accepted", "parser_error"}

\* select_by_expression goes past its dialog: the dialog was accepted with
\* an expression that is not empty and has no parser error.
expression_applies(outcome) == outcome = "accepted"

\* host_request records the outcome of the filter dialog when the dialog
\* was shown.
select_by_expression ==
    /\ Idle
    /\ \E outcome \in DialogOutcomes :
        /\ host_request' =
             IF original_selection = {} THEN NoRequest
             ELSE [call |-> outcome, ids |-> {}]
        /\ IF original_selection = {} \/ ~expression_applies(outcome)
           THEN UNCHANGED <<highlighted_features, table_view, rubber_bands>>
           ELSE
             /\ \E P \in SUBSET original_selection :
                  LET matching == matching_fids(original_selection,
                                                layer_features, P)
                      h2 == after_clearSelection(table_selected, matching)
                      sel == select_rows(matching, table_rows)
                  IN /\ table_selected' = sel
                     /\ highlighted_features' = after_select(sel, h2)
             /\ cyan_rubber_band' =
                  cyan_fids(original_selection, highlighted_features',
                            layer_features)
             /\ yellow_rubber_band' =
                  yellow_fids(highlighted_features', layer_features)
             /\ UNCHANGED table_rows
    /\ Ran("select_by_expression")
    /\ fids' = {}
    /\ pre_highlighted' = {}
    /\ UNCHANGED <<layer_features, layer_selection, layer_editable,
                   original_selection, clipboard_features, guards,
                   pc, sel_event>>
    /\ Buttons(original_selection # {}
               /\ expression_applies(host_request'.call))

\* reselect_to_highlighted up to and including layer.selectByIds.
reselect_to_highlighted ==
    /\ Idle
    /\ IF nothing_to_reselect(highlighted_features)
       THEN UNCHANGED <<tracker_sets, layer_selection, _updating_selection,
                        pc, sel_event>>
       ELSE /\ original_selection' = narrowed(highlighted_features)
            /\ highlighted_features' = {}
            /\ _updating_selection' = TRUE
            /\ layer_selection' = original_selection'
            /\ sel_event' = TRUE
            /\ pc' = "reselect_to_highlighted"
    /\ Ran("reselect_to_highlighted")
    /\ fids' = {}
    /\ host_request' = NoRequest
    /\ pre_highlighted' = highlighted_features
    /\ UNCHANGED <<layer_features, layer_editable, clipboard_features,
                   _updating_highlights, table_view, rubber_bands>>
    /\ UNCHANGED enabled

\* reselect_to_highlighted from the return of selectByIds to its end.
reselect_to_highlighted_return ==
    /\ pc = "reselect_to_highlighted"
    /\ ~sel_event
    /\ _updating_selection' = FALSE
    /\ Repopulated(original_selection, highlighted_features, layer_features)
    /\ pc' = "idle"
    /\ Ran("reselect_to_highlighted_return")
    /\ UNCHANGED <<layer_features, layer_selection, layer_editable,
                   tracker_sets, clipboard_features, _updating_highlights,
                   sel_event, fids, host_request, pre_highlighted>>
    /\ Buttons(TRUE)

\* The slot of layer.selectionChanged.
on_layer_selection_changed ==
    /\ sel_event
    /\ sel_event' = FALSE
    /\ IF selection_update_needed(_updating_selection, layer_selection,
                                  original_selection)
       THEN /\ original_selection' = layer_selection
            /\ highlighted_features' =
                 kept_highlights(highlighted_features, original_selection')
            /\ Repopulated(original_selection', highlighted_features',
                           layer_features)
       ELSE UNCHANGED <<tracker_sets, table_view, rubber_bands>>
    /\ Ran("on_layer_selection_changed")
    /\ UNCHANGED <<layer_features, layer_selection, layer_editable,
                   clipboard_features, guards, pc, fids, host_request,
                   pre_highlighted>>
    /\ Buttons(selection_update_needed(_updating_selection,
                                       layer_selection,
                                       original_selection))

\* The host changes the layer's selection (map tools, the main attribute
\* table) and emits selectionChanged.
HostSelectByIds ==
    /\ Idle
    /\ \E X \in SUBSET layer_features : layer_selection' = X
    /\ sel_event' = TRUE
    /\ Plain("selectByIds")
    /\ UNCHANGED <<layer_features, layer_editable, tracker_sets,
                   clipboard_features, guards, table_view, rubber_bands, pc>>
    /\ UNCHANGED enabled

\* refresh_table: the new original_selection.  An empty host selection
\* leaves original_selection as it is.
refreshed(current_selection, original) ==
    IF current_selection # {} THEN current_selection ELSE original

refresh_table ==
    /\ Idle
    /\ original_selection' = refreshed(layer_selection, original_selection)
    /\ highlighted_features' =
         kept_highlights(highlighted_features, original_selection')
    /\ Repopulated(original_selection', highlighted_features', layer_features)
    /\ Plain("refresh_table")
    /\ UNCHANGED <<layer_features, layer_selection, layer_editable,
                   clipboard_features, guards, pc, sel_event>>
    /\ Buttons(TRUE)

\* The views after an operation that opened an edit session of its own
\* (startEditing ... commitChanges or rollBack) and changed nothing else:
\* editingStarted and editingStopped each ran on_editing_mode_changed.
OwnEditSession(was_editing) ==
    IF was_editing
    THEN UNCHANGED <<table_view, rubber_bands>>
    ELSE LET v == on_editing_mode_changed(original_selection,
                                          highlighted_features,
                                          layer_features)
         IN /\ table_rows' = v.rows
            /\ table_selected' = v.selected
            /\ cyan_rubber_band' = v.cyan
            /\ yellow_rubber_band' = v.yellow

\* delete_features up to and including layer.selectByIds, or to its return
\* when it stops earlier.  The host may or may not emit featuresDeleted from
\* inside deleteFeatures (notified); the clipboard is left to the caller.
DeleteBody(op) ==
    LET target == get_target_features(highlighted_features,
                                      original_selection)
        was_editing == layer_editable
        features1 == layer_features \ target
        original1 == after_delete(original_selection, target, TRUE)
        highlighted1 == after_delete(highlighted_features, target, TRUE)
    IN
    /\ Ran(op)
    /\ fids' = target
    /\ pre_highlighted' = {}
    /\ UNCHANGED _updating_highlights
    /\ \E reply \in {"Yes", "No"} :
        IF target = {} \/ reply # "Yes"
        THEN /\ host_request' = NoRequest
             /\ UNCHANGED <<layer_features, layer_selection, layer_editable,
                            tracker_sets, _updating_selection, table_view,
                            rubber_bands, pc, sel_event>>
        ELSE /\ host_request' = [call |-> "deleteFeatures", ids |-> target]
             /\ \E deleted \in BOOLEAN :
                 IF deleted
                 THEN /\ layer_features' = features1
                      /\ original_selection' = original1
                      /\ highlighted_features' = highlighted1
                      /\ table_rows' = populate_table(original1, features1)
                      /\ table_selected' = {}
                      \* update_map_highlighting is not called by
                      \* delete_features itself: the bands are redrawn by
                      \* on_features_deleted, or by the on_editing_mode_changed
                      \* that commitChanges triggers before the sets shrink
                      /\ \E notified \in BOOLEAN :
                          IF notified
                          THEN /\ cyan_rubber_band' =
                                    cyan_fids(original1, highlighted1,
                                              features1)
                               /\ yellow_rubber_band' =
                                    yellow_fids(highlighted1, features1)
                          ELSE IF ~was_editing
                          THEN /\ cyan_rubber_band' =
                                    cyan_fids(original_selection,
                                              highlighted_features, features1)
                               /\ yellow_rubber_band' =
                                    yellow_fids(highlighted_features,
                                                features1)
                          ELSE UNCHANGED rubber_bands
                      /\ _updating_selection' = TRUE
                      /\ layer_selection' = original1
                      /\ sel_event' = TRUE
                      /\ pc' = "delete_features"
                      /\ UNCHANGED layer_editable
                 ELSE /\ original_selection' =
                           after_delete(original_selection, target, FALSE)
                      /\ highlighted_features' =
                           after_delete(highlighted_features, target, FALSE)
                      /\ OwnEditSession(was_editing)
                      /\ UNCHANGED <<layer_features, layer_selection,
                                     layer_editable, _updating_selection,
                                     pc, sel_event>>

delete_features ==
    /\ Idle
    /\ DeleteBody("delete_features")
    /\ UNCHANGED clipboard_features
    /\ Buttons(host_request'.call = "deleteFeatures"
               /\ (pc' = "delete_features" \/ ~layer_editable))

\* A copy_features that does not empty the clipboard first.
copied_appended(target, features, clipboard) ==
    IF target = {} THEN clipboard
    ELSE clipboard \o getFeatures(target \cap features)

\* A copy_features without its early return on an empty target set.
copied_always(target, features, clipboard) ==
    getFeatures(target \cap features)

\* copy_features: the new clipboard_features.
copied(target, features, clipboard) ==
    IF target = {} THEN clipboard ELSE getFeatures(target \cap features)

\* A cut that deletes first and copies afterwards.
features_at_copy_after_delete(before, after) == after

\* cut_features calls copy_features and then delete_features: the copy
\* reads the layer as it is before the deletion (before), not as the
\* deletion leaves it (after).
features_at_copy(before, after) == before

cut_features ==
    /\ Idle
    /\ DeleteBody("cut_features")
    /\ clipboard_features' =
         copied(get_target_features(highlighted_features, original_selection),
                features_at_copy(layer_features, layer_features'),
                clipboard_features)
    /\ Buttons(fids' # {})

\* delete_features from the return of selectByIds to its end.
delete_features_return ==
    /\ pc = "delete_features"
    /\ ~sel_event
    /\ _updating_selection' = FALSE
    /\ pc' = "idle"
    /\ Ran("delete_features_return")
    /\ UNCHANGED <<layer_features, layer_selection, layer_editable,
                   tracker_sets, clipboard_features, _updating_highlights,
                   table_view, rubber_bands, sel_event, fids, host_request,
                   pre_highlighted>>
    /\ UNCHANGED enabled

copy_features ==
    /\ Idle
    /\ fids' = get_target_features(highlighted_features, original_selection)
    /\ clipboard_features' = copied(fids', layer_features, clipboard_features)
    /\ host_request' =
         IF fids' = {} THEN NoRequest
         ELSE [call |-> "getFeatures", ids |-> fids']
    /\ Ran("copy_features")
    /\ pre_highlighted' = {}
    /\ UNCHANGED <<layer_features, layer_selection, layer_editable,
                   tracker_sets, guards, table_view, rubber_bands, pc,
                   sel_event>>
    /\ Buttons(fids' # {})

\* paste_features.  The provider gives the pasted features ids the layer
\* does not use (N); a paste that succeeds needs that many free ids.
paste_features ==
    /\ Idle
    /\ \E added \in BOOLEAN, N \in SUBSET (FeatureIds \ layer_features) :
        LET was_editing == layer_editable
        IN
        /\ Cardinality(N) =
             (IF added THEN Len(clipboard_features) ELSE 0)
        /\ IF clipboard_features = <<>>
           THEN UNCHANGED <<layer_features, tracker_sets, table_view,
                            rubber_bands>>
           ELSE IF added
           THEN /\ layer_features' = layer_features \cup N
                /\ original_selection' =
                     refreshed(layer_selection, original_selection)
                /\ highlighted_features' =
                     kept_highlights(highlighted_features,
                                     original_selection')
                /\ Repopulated(original_selection', highlighted_features',
                               layer_features')
           ELSE /\ OwnEditSession(was_editing)
                /\ UNCHANGED <<layer_features, tracker_sets>>
    /\ Plain("paste_features")
    /\ UNCHANGED <<layer_selection, layer_editable, clipboard_features,
                   guards, pc, sel_event>>
    /\ Buttons(clipboard_features # <<>>
               /\ (layer_features' # layer_features \/ ~layer_editable))

\* zoom_to_highlighted up to and including layer.selectByIds.
zoom_to_highlighted ==
    /\ Idle
    /\ fids' = get_target_features(highlighted_features, original_selection)
    /\ IF fids' = {}
       THEN /\ host_request' = NoRequest
            /\ UNCHANGED <<layer_selection, _updating_selection, pc,
                           sel_event>>
       ELSE /\ host_request' = [call |-> "selectByIds", ids |-> fids']
            /\ _updating_selection' = TRUE
            /\ layer_selection' = fids'
            /\ sel_event' = TRUE
            /\ pc' = "zoom_to_highlighted"
    /\ Ran("zoom_to_highlighted")
    /\ pre_highlighted' = {}
    /\ UNCHANGED <<layer_features, layer_editable, tracker_sets,
                   clipboard_features, _updating_highlights, table_view,
                   rubber_bands>>
    /\ UNCHANGED enabled

\* zoom_to_highlighted from the return of selectByIds to its end.
zoom_to_highlighted_return ==
    /\ pc = "zoom_to_highlighted"
    /\ ~sel_event
    /\ _updating_selection' = FALSE
    /\ pc' = "idle"
    /\ Ran("zoom_to_highlighted_return")
    /\ UNCHANGED <<layer_features, layer_selection, layer_editable,
                   tracker_sets, clipboard_features, _updating_highlights,
                   table_view, rubber_bands, sel_event, fids, host_request,
                   pre_highlighted>>
    /\ UNCHANGED enabled

\* open_field_calculator: it resolves fids, reports when there is nothing
\* selected, and ends there; the code that opens FieldCalculatorDialog sits
\* in flash_fid.
open_field_calculator ==
    /\ Idle
    /\ fids' = get_target_features(highlighted_features, original_selection)
    /\ host_request' = NoRequest
    /\ Ran("open_field_calculator")
    /\ pre_highlighted' = {}
    /\ UNCHANGED <<layer_features, layer_selection, layer_editable,
                   tracker_sets, clipboard_features, guards, table_view,
                   rubber_bands, pc, sel_event>>
    /\ UNCHANGED enabled

\* flash_fid (context menu, Flash Feature): flashFeatureIds, then the read
\* of the name fids, which is not defined in flash_fid, raises NameError
\* before FieldCalculatorDialog is constructed.
flash_fid ==
    /\ Idle
    /\ \E fid \in table_rows :
         host_request' = [call |-> "flashFeatureIds", ids |-> {fid}]
    /\ fids' = {}
    /\ Ran("flash_fid")
    /\ pre_highlighted' = {}
    /\ UNCHANGED <<layer_features, layer_selection, layer_editable,
                   tracker_sets, clipboard_features, guards, table_view,
                   rubber_bands, pc, sel_event>>
    /\ UNCHANGED enabled

\* The host deletes the features Y (and drops them from its selection) and
\* emits featuresDeleted: on_features_deleted.
on_features_deleted ==
    /\ Idle
    /\ \E Y \in (SUBSET layer_features) \ {{}} :
        /\ layer_features' = layer_features \ Y
        /\ layer_selection' = layer_selection \ Y
        /\ original_selection' = removed(original_selection, Y)
        /\ highlighted_features' = removed(highlighted_features, Y)
    /\ Repopulated(original_selection', highlighted_features',
                   layer_features')
    /\ Plain("on_features_deleted")
    /\ UNCHANGED <<layer_editable, clipboard_features, guards, pc, sel_event>>
    /\ Buttons(TRUE)

\* The host starts or stops editing the layer and emits editingStarted or
\* editingStopped: on_editing_mode_changed.
EditingToggled ==
    /\ Idle
    /\ layer_editable' = ~layer_editable
    /\ LET v == on_editing_mode_changed(original_selection,
                                        highlighted_features, layer_features)
       IN /\ table_rows' = v.rows
          /\ table_selected' = v.selected
          /\ cyan_rubber_band' = v.cyan
          /\ yellow_rubber_band' = v.yellow
    /\ Plain("on_editing_mode_changed")
    /\ UNCHANGED <<layer_features, layer_selection, tracker_sets,
                   clipboard_features, guards, pc, sel_event>>
    /\ Buttons(TRUE)

\* A close that never writes the base selection back to the host.
restore_needed_never(original) == FALSE

\* The close handlers restore the host's selection when original_selection
\* is not empty.
restore_needed(original) == original # {}

\* The table is closed (AdvancedSelectionDock.closeEvent, or
\* AdvancedSelectionDialog._do_cleanup from closeEvent or reject):
\* cleanup_rubber_bands, then the restoring selectByIds under
\* _updating_selection, up to and including that call.
closeEvent ==
    /\ Idle
    /\ cyan_rubber_band' = {}
    /\ yellow_rubber_band' = {}
    /\ IF restore_needed(original_selection)
       THEN /\ _updating_selection' = TRUE
            /\ layer_selection' = original_selection
            /\ sel_event' = TRUE
            /\ pc' = "closeEvent"
       ELSE /\ pc' = "closed"
            /\ UNCHANGED <<layer_selection, _updating_selection, sel_event>>
    /\ Plain("closeEvent")
    /\ UNCHANGED <<layer_features, layer_editable, tracker_sets,
                   clipboard_features, _updating_highlights, table_view,
                   enabled>>

\* The close handler from the return of selectByIds to its end; no handler
\* of a closed table is followed any further.
closeEvent_return ==
    /\ pc = "closeEvent"
    /\ ~sel_event
    /\ _updating_selection' = FALSE
    /\ pc' = "closed"
    /\ Ran("closeEvent_return")
    /\ UNCHANGED <<layer_features, layer_selection, layer_editable,
                   tracker_sets, clipboard_features, _updating_highlights,
                   table_view, rubber_bands, sel_event, fids, host_request,
                   pre_highlighted, enabled>>

Next ==
    \/ closeEvent
    \/ closeEvent_return
    \/ refresh_table
    \/ delete_features
    \/ cut_features
    \/ delete_features_return
    \/ copy_features
    \/ paste_features
    \/ zoom_to_highlighted
    \/ zoom_to_highlighted_return
    \/ open_field_calculator
    \/ flash_fid
    \/ on_features_deleted
    \/ EditingToggled
    \/ clear_highlights
    \/ highlight_all
    \/ invert_highlights
    \/ select_by_expression
    \/ reselect_to_highlighted
    \/ reselect_to_highlighted_return
    \/ on_layer_selection_changed
    \/ HostSelectByIds
    \/ Click
    \/ CtrlClick
    \/ ShiftClick

Spec == Init /\ [][Next]_vars

(***************************************************************************)
(* get_target_features on arbitrary pairs of sets.                         *)
(***************************************************************************)

\* The pairs of sets are drawn from the ids 1..MaxTargetFid.
MaxTargetFid == 3

TargetIds == 1..MaxTargetFid

\* Any pair of sets as highlighted_features and original_selection, the
\* subset relation between them not assumed.
InitTarget ==
    /\ layer_features = TargetIds
    /\ original_selection \in SUBSET TargetIds
    /\ highlighted_features \in SUBSET TargetIds
    /\ layer_selection = original_selection
    /\ layer_editable = FALSE
    /\ clipboard_features = <<>>
    /\ _updating_selection = FALSE
    /\ _updating_highlights = FALSE
    /\ table_rows = populate_table(original_selection, layer_features)
    /\ table_selected = {}
    /\ cyan_rubber_band =
         cyan_fids(original_selection, highlighted_features, layer_features)
    /\ yellow_rubber_band = yellow_fids(highlighted_features, layer_features)
    /\ pc = "idle"
    /\ sel_event = FALSE
    /\ fids = {}
    /\ host_request = NoRequest
    /\ pre_highlighted = {}
    /\ enabled = update_button_states(highlighted_features,
                                      original_selection,
                                      clipboard_features, layer_editable)
    /\ last_op = "__init__"
    /\ before_op = "other"
    /\ selection_dialogs = NoWidgets
    /\ selection_docks = NoWidgets
    /\ opened = "none"

\* fids = self.get_target_features(), and nothing else.
get_target_call ==
    /\ Idle
    /\ fids' = get_target_features(highlighted_features, original_selection)
    /\ Ran("get_target_features")
    /\ UNCHANGED <<layer_features, layer_selection, layer_editable,
                   tracker_sets, clipboard_features, guards, table_view,
                   rubber_bands, pc, sel_event, host_request,
                   pre_highlighted>>
    /\ UNCHANGED enabled

NextTarget == get_target_call

SpecTarget == InitTarget /\ [][NextTarget]_vars

(***************************************************************************)
(* The plugin's tables for one layer (src/advanced_selection_table.py):    *)
(* the two dicts, and of each table the two sets and whether it is shown.  *)
(***************************************************************************)

\* The ids the dicts are keyed by; the layer of the model is the one whose
\* selection is layer_selection.
LayerIds == {"layer"}

\* dict.pop(layer_id, None) and dict[layer_id] = widget.
pop(dict, layer_id) == [k \in DOMAIN dict \ {layer_id} |-> dict[k]]

put(dict, layer_id, widget) ==
    [k \in DOMAIN dict \cup {layer_id} |->
       IF k = layer_id THEN widget ELSE dict[k]]

\* A dialog or dock right after its constructor and show(): the sets are
\* those __init__ assigns.
shown(selected) ==
    [original_selection   |-> constructed(selected).original_selection,
     highlighted_features |-> constructed(selected).highlighted_features,
     isVisible            |-> TRUE]

\* An open that takes no table for registered.
registered_never(dict, layer_id) == FALSE

\* layer_id in dict and dict[layer_id]: a widget is a true value.
registered(dict, layer_id) == layer_id \in DOMAIN dict

\* open_selection_dialog and open_selection_dock on their dict: the dict
\* afterwards and the branch taken.
open_selection(dict, layer_id, selected) ==
    IF registered(dict, layer_id)
    THEN [dict   |-> [dict EXCEPT ![layer_id].isVisible = TRUE],
          opened |-> "show"]
    ELSE IF Cardinality(selected) = 0
    THEN [dict |-> dict, opened |-> "pushInfo"]
    ELSE [dict   |-> put(dict, layer_id, shown(selected)),
          opened |-> "constructed"]

\* on_layer_selection_changed of a table whose guard is clear.
notified(widget, new_selection) ==
    IF selection_update_needed(FALSE, new_selection,
                               widget.original_selection)
    THEN [widget EXCEPT
            !.original_selection = new_selection,
            !.highlighted_features = kept_highlights(@, new_selection)]
    ELSE widget

\* selectionChanged delivered to every table of a dict.
selectionChanged(dict, new_selection) ==
    [k \in DOMAIN dict |-> notified(dict[k], new_selection)]

\* The host's selection after the restoring write of a close handler.
restored(widget, selected) ==
    IF restore_needed(widget.original_selection)
    THEN widget.original_selection ELSE selected

\* The tables of the other kind after that write: they hear of it only if
\* it was made.
restore_heard(dict, widget, selected) ==
    IF restore_needed(widget.original_selection)
    THEN selectionChanged(dict, restored(widget, selected))
    ELSE dict

\* Bookkeeping of the plugin's steps.
PluginRan(op) ==
    /\ last_op' = op
    /\ before_op' = "other"
    /\ UNCHANGED <<layer_features, layer_editable, tracker_sets,
                   clipboard_features, guards, table_view, rubber_bands,
                   pc, sel_event, fids, host_request, pre_highlighted,
                   enabled>>

InitPlugin ==
    /\ layer_features = FeatureIds
    /\ layer_selection \in SUBSET FeatureIds
    /\ layer_editable = FALSE
    /\ original_selection = {}
    /\ highlighted_features = {}
    /\ clipboard_features = <<>>
    /\ _updating_selection = FALSE
    /\ _updating_highlights = FALSE
    /\ table_rows = {}
    /\ table_selected = {}
    /\ cyan_rubber_band = {}
    /\ yellow_rubber_band = {}
    /\ pc = "idle"
    /\ sel_event = FALSE
    /\ fids = {}
    /\ host_request = NoRequest
    /\ pre_highlighted = {}
    /\ enabled = update_button_states({}, {}, <<>>, FALSE)
    /\ last_op = "initGui"
    /\ before_op = "other"
    /\ selection_dialogs = NoWidgets
    /\ selection_docks = NoWidgets
    /\ opened = "none"

\* run_dialog: open_selection_dialog(layer).
open_selection_dialog ==
    \E layer_id \in LayerIds :
       LET o == open_selection(selection_dialogs, layer_id, layer_selection)
       IN /\ selection_dialogs' = o.dict
          /\ opened' = o.opened
          /\ PluginRan("open_selection_dialog")
          /\ UNCHANGED <<layer_selection, selection_docks>>

\* run_dock: open_selection_dock(layer).
open_selection_dock ==
    \E layer_id \in LayerIds :
       LET o == open_selection(selection_docks, layer_id, layer_selection)
       IN /\ selection_docks' = o.dict
          /\ opened' = o.opened
          /\ PluginRan("open_selection_dock")
          /\ UNCHANGED <<layer_selection, selection_dialogs>>

\* The Dock button of a shown dialog: the dialog leaves the dict and is
\* closed, its closeEvent restoring the host's selection, and
\* open_selection_dock follows.
convert_to_dock ==
    \E layer_id \in LayerIds :
       /\ registered(selection_dialogs, layer_id)
       /\ selection_dialogs[layer_id].isVisible
       /\ LET dialog == selection_dialogs[layer_id]
              o == open_selection(
                     restore_heard(selection_docks, dialog, layer_selection),
                     layer_id, restored(dialog, layer_selection))
          IN /\ selection_dialogs' = pop(selection_dialogs, layer_id)
             /\ layer_selection' = restored(dialog, layer_selection)
             /\ selection_docks' = o.dict
             /\ opened' = o.opened
       /\ PluginRan("convert_to_dock")

\* The Undock button of a dock: the dock leaves the dict and is removed
\* without a close event, and open_selection_dialog follows.
convert_to_dialog ==
    \E layer_id \in LayerIds :
       /\ registered(selection_docks, layer_id)
       /\ LET o == open_selection(selection_dialogs, layer_id,
                                  layer_selection)
          IN /\ selection_docks' = pop(selection_docks, layer_id)
             /\ selection_dialogs' = o.dict
             /\ opened' = o.opened
       /\ PluginRan("convert_to_dialog")
       /\ UNCHANGED layer_selection

\* The close button of a shown dialog: AdvancedSelectionDialog.closeEvent
\* cleans up and accepts the event; finished is not emitted and the dict
\* keeps the dialog.
dialog_closeEvent ==
    \E layer_id \in LayerIds :
       /\ registered(selection_dialogs, layer_id)
       /\ selection_dialogs[layer_id].isVisible
       /\ LET dialog == selection_dialogs[layer_id]
          IN /\ layer_selection' = restored(dialog, layer_selection)
             /\ selection_docks' =
                  restore_heard(selection_docks, dialog, layer_selection)
             /\ selection_dialogs' =
                  [selection_dialogs EXCEPT ![layer_id].isVisible = FALSE]
       /\ PluginRan("dialog_closeEvent")
       /\ UNCHANGED opened

\* Escape in a shown dialog: AdvancedSelectionDialog.reject cleans up and
\* QDialog.reject emits finished, whose slot pops the dialog.
dialog_reject ==
    \E layer_id \in LayerIds :
       /\ registered(selection_dialogs, layer_id)
       /\ selection_dialogs[layer_id].isVisible
       /\ LET dialog == selection_dialogs[layer_id]
          IN /\ layer_selection' = restored(dialog, layer_selection)
             /\ selection_docks' =
                  restore_heard(selection_docks, dialog, layer_selection)
             /\ selection_dialogs' = pop(selection_dialogs, layer_id)
       /\ PluginRan("dialog_reject")
       /\ UNCHANGED opened

\* The dock is closed: AdvancedSelectionDock.closeEvent restores the
\* host's selection and emits closed, whose slot on_dock_closed pops the
\* dock.
dock_closeEvent ==
    \E layer_id \in LayerIds :
       /\ registered(selection_docks, layer_id)
       /\ LET dock == selection_docks[layer_id]
          IN /\ layer_selection' = restored(dock, layer_selection)
             /\ selection_dialogs' =
                  restore_heard(selection_dialogs, dock, layer_selection)
             /\ selection_docks' = pop(selection_docks, layer_id)
       /\ PluginRan("dock_closeEvent")
       /\ UNCHANGED opened

\* Rows of a shown table are selected or cleared: its highlighted_features
\* becomes a subset of its original_selection.
widget_highlight ==
    \E layer_id \in LayerIds, is_dock \in BOOLEAN :
       LET dict == IF is_dock THEN selection_docks ELSE selection_dialogs
       IN /\ registered(dict, layer_id)
          /\ dict[layer_id].isVisible
          /\ \E H \in SUBSET dict[layer_id].original_selection :
                LET after == [dict EXCEPT ![layer_id].highlighted_features = H]
                IN /\ selection_docks' =
                        IF is_dock THEN after ELSE selection_docks
                   /\ selection_dialogs' =
                        IF is_dock THEN selection_dialogs ELSE after
          /\ PluginRan("on_table_selection_changed")
          /\ UNCHANGED <<layer_selection, opened>>

\* zoom_to_highlighted of a shown table: the host's selection becomes the
\* table's target set; the table of the other kind hears of it.
widget_zoom ==
    \E layer_id \in LayerIds, is_dock \in BOOLEAN :
       LET dict == IF is_dock THEN selection_docks ELSE selection_dialogs
           other == IF is_dock THEN selection_dialogs ELSE selection_docks
       IN /\ registered(dict, layer_id)
          /\ dict[layer_id].isVisible
          /\ LET target == get_target_features(
                             dict[layer_id].highlighted_features,
                             dict[layer_id].original_selection)
             IN /\ target # {}
                /\ layer_selection' = target
                /\ selection_docks' =
                     IF is_dock THEN selection_docks
                     ELSE selectionChanged(other, target)
                /\ selection_dialogs' =
                     IF is_dock THEN selectionChanged(other, target)
                     ELSE selection_dialogs
          /\ PluginRan("zoom_to_highlighted")
          /\ UNCHANGED opened

\* The host changes the layer's selection: every table of the layer hears
\* of it.
HostSelects ==
    \E X \in SUBSET FeatureIds :
       /\ layer_selection' = X
       /\ selection_dialogs' = selectionChanged(selection_dialogs, X)
       /\ selection_docks' = selectionChanged(selection_docks, X)
       /\ PluginRan("selectByIds")
       /\ UNCHANGED opened

NextPlugin ==
    \/ open_selection_dialog
    \/ open_selection_dock
    \/ convert_to_dock
    \/ convert_to_dialog
    \/ dialog_closeEvent
    \/ dialog_reject
    \/ dock_closeEvent
    \/ widget_highlight
    \/ widget_zoom
    \/ HostSelects

SpecPlugin == InitPlugin /\ [][NextPlugin]_vars

(***************************************************************************)
(* Properties.                                                             *)
(***************************************************************************)

\* What the spec calls targetSet(), evaluated on the current state.
TargetSet ==
    IF highlighted_features # {} THEN highlighted_features
    ELSE original_selection

\* C1: in every reachable state highlighted_features is a subset of
\* original_selection.
C1_HighlightedWithinBase == highlighted_features \subseteq original_selection

\* An external selection change has cut the highlights down to a proper,
\* non-empty part of the new base selection.
C1_Witness ==
    /\ last_op = "on_layer_selection_changed"
    /\ pc = "idle"
    /\ highlighted_features # {}
    /\ highlighted_features # original_selection
    /\ original_selection = layer_selection
    /\ table_selected = {}

\* C2: get_target_features returns highlighted_features when that set is
\* non-empty and original_selection otherwise, for every pair of sets, and
\* the call changes neither set.
C2_TargetSetRule ==
    [][last_op' = "get_target_features" =>
          /\ highlighted_features # {} => fids' = highlighted_features
          /\ highlighted_features = {} => fids' = original_selection
          /\ UNCHANGED tracker_sets]_vars

\* The call has returned a non-empty highlighted set that is not within the
\* base selection.
C2_Witness ==
    /\ last_op = "get_target_features"
    /\ highlighted_features # {}
    /\ ~(highlighted_features \subseteq original_selection)
    /\ original_selection # {}
    /\ fids = highlighted_features

\* C3: delete, copy, zoom and the field calculator each work on exactly
\* targetSet() as it is when the operation is invoked: delete asks the host
\* to delete those ids, copy snapshots them, zoom writes them to the host
\* selection, and the field calculator is opened on them.
C3_ConsumersUseTargetSet ==
    [][/\ (last_op' = "delete_features"
             /\ host_request'.call = "deleteFeatures")
          => host_request'.ids = TargetSet
       /\ (last_op' = "copy_features" /\ TargetSet # {})
          => Range(clipboard_features') = TargetSet
       /\ (last_op' = "zoom_to_highlighted" /\ TargetSet # {})
          => /\ layer_selection' = TargetSet
             /\ host_request' = [call |-> "selectByIds", ids |-> TargetSet]
       /\ (last_op' = "open_field_calculator" /\ TargetSet # {})
          => host_request' =
               [call |-> "FieldCalculatorDialog", ids |-> TargetSet]]_vars

\* C4: a selectionChanged event delivered while _updating_selection is set
\* changes neither set, nor the table, nor the overlays, and writes nothing
\* to the host selection that would raise the event again.
C4_GuardedEventIgnored ==
    [][(sel_event /\ _updating_selection
          /\ last_op' = "on_layer_selection_changed")
       => /\ UNCHANGED <<tracker_sets, table_view, rubber_bands>>
          /\ UNCHANGED layer_selection
          /\ ~sel_event']_vars

\* The handler has run under the guard while the host selection, written by
\* zoom, differed from the base selection.
C4_Witness ==
    /\ last_op = "on_layer_selection_changed"
    /\ pc = "zoom_to_highlighted"
    /\ _updating_selection
    /\ ~sel_event
    /\ layer_selection # original_selection

\* C5: an external selection change to X, the guard being clear, ends with
\* original_selection = X and highlighted_features = old highlighted /\ X.
C5_ExternalChangeSetsBase ==
    [][(sel_event /\ ~_updating_selection
          /\ last_op' = "on_layer_selection_changed")
       => /\ original_selection' = layer_selection
          /\ highlighted_features' =
               highlighted_features \cap layer_selection]_vars

\* The host selection was emptied from outside and the tracker followed.
C5_Witness ==
    /\ last_op = "on_layer_selection_changed"
    /\ pc = "idle"
    /\ ~_updating_selection
    /\ layer_selection = {}
    /\ original_selection = {}
    /\ highlighted_features = {}
    /\ table_rows = {}

\* C6: a narrow begun with a non-empty highlighted set H0 ends with
\* original_selection = H0, highlighted_features empty and the host
\* selection written to H0.
C6_NarrowToHighlighted ==
    (last_op = "reselect_to_highlighted_return")
    => /\ pre_highlighted # {}
       /\ original_selection = pre_highlighted
       /\ highlighted_features = {}
       /\ layer_selection = pre_highlighted

\* A narrow on ids 1..2: the highlight {1} became the base selection and
\* the host's selection, feature 2 staying in the layer.
C6_Witness ==
    /\ last_op = "reselect_to_highlighted_return"
    /\ pc = "idle"
    /\ original_selection = {1}
    /\ highlighted_features = {}
    /\ layer_selection = {1}
    /\ 2 \in layer_features

\* C7: a narrow invoked with nothing highlighted changes neither set, nor
\* the host selection, nor the guard flag.
C7_NarrowOnEmptyIsNoOp ==
    [][(last_op' = "reselect_to_highlighted" /\ highlighted_features = {})
       => UNCHANGED <<tracker_sets, layer_selection, _updating_selection>>]_vars

\* The narrow returned at once on a non-empty base selection.
C7_Witness ==
    /\ last_op = "reselect_to_highlighted"
    /\ pc = "idle"
    /\ pre_highlighted = {}
    /\ highlighted_features = {}
    /\ original_selection # {}
    /\ ~_updating_selection

\* C8: invert sets highlighted_features to original_selection minus
\* highlighted_features, and a second invert right after the first gives back
\* the set the first one started from.
C8_InvertIsSelfInverse ==
    [][last_op' = "invert_highlights"
       => /\ highlighted_features' =
               original_selection \ highlighted_features
          /\ UNCHANGED original_selection
          /\ last_op = "invert_highlights"
             => highlighted_features' = pre_highlighted]_vars

\* Two inverts in a row on a base selection that is partly highlighted, rows
\* having been selected before each of them.
C8_Witness ==
    /\ last_op = "invert_highlights"
    /\ before_op = "invert_highlights"
    /\ highlighted_features # {}
    /\ highlighted_features # original_selection
    /\ pre_highlighted = original_selection \ highlighted_features
    /\ table_selected = highlighted_features

\* C9: highlight-all ends with highlighted_features = original_selection,
\* and a second highlight-all right after changes nothing in it.
C9_HighlightAllIdempotent ==
    [][last_op' = "highlight_all"
       => /\ highlighted_features' = original_selection'
          /\ UNCHANGED original_selection
          /\ last_op = "highlight_all"
             => highlighted_features' = highlighted_features]_vars

\* Two highlight-alls in a row on a base selection of several features.
C9_Witness ==
    /\ last_op = "highlight_all"
    /\ before_op = "highlight_all"
    /\ Cardinality(original_selection) >= 2
    /\ highlighted_features = original_selection
    /\ table_selected = table_rows

C11_RemoveIds ==
    [][/\ last_op' = "on_features_deleted"
          => LET Y == layer_features \ layer_features'
             IN /\ original_selection' = original_selection \ Y
                /\ highlighted_features' = highlighted_features \ Y
                /\ original_selection' \cap Y = {}
                /\ highlighted_features' \cap Y = {}
       /\ (last_op' \in {"delete_features", "cut_features"}
             /\ pc' = "delete_features")
          => /\ original_selection' = original_selection \ fids'
             /\ highlighted_features' = highlighted_features \ fids'
             /\ original_selection' \cap fids' = {}
             /\ highlighted_features' \cap fids' = {}]_vars

\* A delete of the highlighted rows has gone through: its ids, which were in
\* both sets, are in neither, and the rest of the base selection is still
\* there.
C11_Witness ==
    /\ last_op = "delete_features"
    /\ pc = "delete_features"
    /\ fids # {}
    /\ original_selection # {}
    /\ original_selection \cap fids = {}
    /\ layer_features \cap fids = {}

\* C12: when the host rejects the deletion, both sets are as they were
\* before delete was invoked; the sets lose ids only together with the
\* host's features.
C12_RejectedDeleteKeepsSets ==
    [][(last_op' \in {"delete_features", "cut_features"})
       => /\ (host_request'.call = "deleteFeatures"
                /\ layer_features' = layer_features)
             => UNCHANGED tracker_sets
          /\ (original_selection' # original_selection
                \/ highlighted_features' # highlighted_features)
             => layer_features' = layer_features \ TargetSet]_vars

\* The host has rejected the deletion of the highlighted rows: they are
\* still highlighted and still features of the layer.
C12_Witness ==
    /\ last_op = "delete_features"
    /\ pc = "idle"
    /\ host_request.call = "deleteFeatures"
    /\ fids # {}
    /\ fids = highlighted_features
    /\ fids \subseteq layer_features
    /\ highlighted_features # original_selection

\* C13: with original_selection empty, highlight-all, invert,
\* clear-highlights, narrow, filter, delete, cut, copy and zoom each leave
\* original_selection, highlighted_features, clipboard_features and the
\* host's selection unchanged.
C13_EmptyBaseOps ==
    [][(original_selection = {}
          /\ last_op' \in {"highlight_all", "invert_highlights",
                           "clear_highlights", "reselect_to_highlighted",
                           "select_by_expression", "delete_features",
                           "cut_features", "copy_features",
                           "zoom_to_highlighted"})
       => /\ UNCHANGED <<original_selection, highlighted_features,
                         clipboard_features, layer_selection>>
          /\ Idle']_vars

\* A cut on an empty base selection has left an earlier copy on the
\* clipboard.
C13_Witness ==
    /\ last_op = "cut_features"
    /\ original_selection = {}
    /\ highlighted_features = {}
    /\ clipboard_features # <<>>
    /\ Idle

\* C14: a filter whose predicate does not parse, whose dialog is cancelled
\* or whose expression is empty changes neither set and none of the views.
C14_FilterWithoutPredicate ==
    [][(last_op' = "select_by_expression"
          /\ host_request'.call \in {"rejected", "empty", "parser_error"})
       => UNCHANGED <<tracker_sets, clipboard_features, layer_selection,
                      layer_features, guards, table_view,
                      rubber_bands>>]_vars

\* The filter dialog was accepted with an expression that does not parse,
\* and the highlights of before are still there.
C14_Witness ==
    /\ last_op = "select_by_expression"
    /\ host_request.call = "parser_error"
    /\ highlighted_features # {}
    /\ table_selected = highlighted_features
    /\ highlighted_features # original_selection

\* The overlays show the two sets: cyan the base selection less the
\* highlights, yellow the highlights, both over the features that exist.
OverlaysMatch ==
    /\ cyan_rubber_band =
         (original_selection \ highlighted_features) \cap layer_features
    /\ yellow_rubber_band = highlighted_features \cap layer_features
    /\ cyan_rubber_band \cap yellow_rubber_band = {}

C16_SelectedRowsAreHighlights ==
    Idle => table_selected = highlighted_features

\* C17: whenever no operation is in progress the host's selection equals
\* original_selection.
C17_HostSelectionIsBase ==
    Idle => layer_selection = original_selection

\* The set s with the membership of x flipped.
Toggled(s, x) == IF x \in s THEN s \ {x} ELSE s \cup {x}

\* C18: a Ctrl+click on the row of x, x being the row whose selection Qt
\* flips, leaves highlighted_features with the membership of x flipped and
\* every other id as it was.
C18_CtrlClickToggles ==
    [][last_op' = "ctrl_click"
       => \E x \in table_rows :
            /\ table_selected' = Toggled(table_selected, x)
            /\ highlighted_features' = Toggled(highlighted_features, x)]_vars

\* C19: a row-selection event whose resulting id set equals
\* highlighted_features is a no-op: the set stays, the overlays are not
\* redrawn and highlightChanged is not emitted; the handler emits
\* highlightChanged exactly when highlighted_features has changed, with the
\* new set.
C19_EqualSetEventIsNoOp ==
    [][(last_op' \in {"click", "ctrl_click", "shift_click"})
       => /\ table_selected' = highlighted_features
             => /\ UNCHANGED <<highlighted_features, rubber_bands>>
                /\ host_request' = NoRequest
          /\ host_request'.call = "highlightChanged"
             <=> highlighted_features' # highlighted_features
          /\ host_request'.call = "highlightChanged"
             => host_request'.ids = highlighted_features']_vars

\* A Ctrl+click, which always changes the row selection, has made the
\* selected rows those of the highlights there were, and nothing was
\* emitted.
C19_Witness ==
    /\ last_op = "ctrl_click"
    /\ host_request = NoRequest
    /\ table_selected = highlighted_features
    /\ highlighted_features # {}
    /\ Idle

\* C20: a newly constructed tracker has original_selection equal to the
\* host's selection at construction, highlighted_features empty,
\* clipboard_features empty and both guard flags clear.
C20_Constructed ==
    last_op = "__init__"
    => /\ original_selection = layer_selection
       /\ highlighted_features = {}
       /\ clipboard_features = <<>>
       /\ ~_updating_selection
       /\ ~_updating_highlights

\* A tracker just constructed on a host selection of several features, all
\* of them rows of the table and none highlighted.
C20_Witness ==
    /\ last_op = "__init__"
    /\ Cardinality(layer_selection) >= 2
    /\ original_selection = layer_selection
    /\ table_rows = layer_selection
    /\ highlighted_features = {}
    /\ cyan_rubber_band = layer_selection

\* C21: original_selection changes only through a selection change that
\* comes from the host, a narrow, or the removal of deleted ids; highlight
\* operations, zoom, copy, paste and refresh never change it.
C21_BaseChangeSources ==
    [][original_selection' # original_selection
       => \/ /\ last_op' = "on_layer_selection_changed"
             /\ pc = "idle"
             /\ original_selection' = layer_selection
          \/ last_op' = "reselect_to_highlighted"
          \/ last_op' \in {"on_features_deleted", "delete_features",
                           "cut_features"}]_vars

\* C22: clipboard_features changes only in a copy or a cut, which replace it
\* by the snapshots of exactly the records of the target set; no change of
\* original_selection or highlighted_features alters it, and a paste adds
\* one feature per snapshot whatever the selection is.
C22_ClipboardFrame ==
    [][/\ clipboard_features' # clipboard_features
          => last_op' \in {"copy_features", "cut_features"}
       /\ (last_op' \in {"copy_features", "cut_features"} /\ TargetSet # {})
          => /\ Range(clipboard_features') = TargetSet
             /\ Len(clipboard_features') = Cardinality(TargetSet)
       /\ (last_op' = "paste_features" /\ layer_features' # layer_features)
          => Cardinality(layer_features' \ layer_features) =
               Len(clipboard_features)]_vars

\* The host has deleted the copied features: the base selection has lost
\* them and the clipboard still holds every snapshot.
C22_Witness ==
    /\ last_op = "on_features_deleted"
    /\ clipboard_features # <<>>
    /\ Range(clipboard_features) \cap layer_features = {}
    /\ Range(clipboard_features) \cap original_selection = {}
    /\ original_selection # {}

\* C23: refresh_table ends with original_selection equal to the
\* host's selection, whatever that is, and highlighted_features equal to
\* the old highlights within the new original_selection.
C23_RefreshSyncsAlways ==
    [][last_op' = "refresh_table"
       => /\ original_selection' = layer_selection
          /\ highlighted_features' =
               highlighted_features \cap original_selection']_vars

\* C27: after a cut on a target set T that is not empty, clipboard_features
\* holds the snapshots of the records of T as they were before any
\* deletion, whether the deletion then succeeds, is declined or is rejected
\* by the host; original_selection and highlighted_features lose T only
\* when it succeeds.
C27_CutIsCopyThenDelete ==
    [][(last_op' = "cut_features" /\ TargetSet # {})
       => /\ clipboard_features' = getFeatures(TargetSet)
          /\ IF pc' = "delete_features"
             THEN /\ original_selection' = original_selection \ TargetSet
                  /\ highlighted_features' =
                       highlighted_features \ TargetSet
                  /\ layer_features' = layer_features \ TargetSet
             ELSE UNCHANGED <<original_selection, highlighted_features,
                              layer_features>>]_vars

\* A cut has gone through: the features are gone from the layer and from
\* both sets, and their snapshots are on the clipboard.
C27_Witness ==
    /\ last_op = "cut_features"
    /\ pc = "delete_features"
    /\ fids # {}
    /\ Range(clipboard_features) = fids
    /\ fids \cap layer_features = {}
    /\ fids \cap original_selection = {}
    /\ original_selection # {}

\* C25: after every completed operation the toolbar follows the current
\* state: clear-highlights and re-select are enabled iff
\* highlighted_features is not empty; highlight-all, filter and invert iff
\* original_selection is not empty; copy and zoom iff either set is not
\* empty; delete and cut iff that holds and the layer is editable; paste iff
\* clipboard_features is not empty and the layer is editable.
C25_ToolbarFollowsState ==
    Idle =>
      LET has_highlights == highlighted_features # {}
          has_selection == original_selection # {}
          has_target == has_highlights \/ has_selection
      IN /\ enabled.action_clear_highlights <=> has_highlights
         /\ enabled.action_reselect <=> has_highlights
         /\ enabled.action_highlight_all <=> has_selection
         /\ enabled.action_select_expr <=> has_selection
         /\ enabled.action_invert <=> has_selection
         /\ enabled.action_copy <=> has_target
         /\ enabled.action_zoom <=> has_target
         /\ enabled.action_delete <=> (has_target /\ layer_editable)
         /\ enabled.action_cut <=> (has_target /\ layer_editable)
         /\ enabled.action_paste <=>
              (clipboard_features # <<>> /\ layer_editable)

\* The host has emptied its selection while the layer is being edited and
\* the clipboard is full: paste is the one action left enabled.
C25_Witness ==
    /\ Idle
    /\ last_op = "on_layer_selection_changed"
    /\ original_selection = {}
    /\ enabled.action_paste
    /\ ~enabled.action_copy
    /\ ~enabled.action_highlight_all
    /\ ~enabled.action_delete

\* C24: closing the table restores the host's selection: right after the
\* close the host's selection equals original_selection, also when a zoom
\* had set it to the highlighted subset, and the close changes neither
\* original_selection nor highlighted_features.
C24_CloseRestoresSelection ==
    [][(last_op' = "closeEvent" \/ pc = "closeEvent")
       => /\ UNCHANGED tracker_sets
          /\ pc' = "closed" => layer_selection' = original_selection']_vars

\* A table with highlighted rows has been closed and its restoring write
\* has returned: the host's selection is the base selection.
C24_Witness ==
    /\ pc = "closed"
    /\ last_op = "closeEvent_return"
    /\ ~_updating_selection
    /\ highlighted_features # {}
    /\ highlighted_features # original_selection
    /\ layer_selection = original_selection

\* The steps that leave the tracker inside one of its own writes of the
\* host's selection.
WritePcs == {"reselect_to_highlighted", "delete_features",
             "zoom_to_highlighted", "closeEvent"}

\* C26: the tracker writes the host's selection only with
\* _updating_selection set, the selection-change event of such a write
\* changes neither set, and the flag is clear whenever no operation is in
\* progress.
C26_WritesAreBracketed ==
    [][/\ pc' \in WritePcs => _updating_selection'
       /\ layer_selection' # layer_selection
          => \/ last_op' \in {"selectByIds", "on_features_deleted"}
             \/ pc' \in WritePcs /\ sel_event'
       /\ (pc \in WritePcs /\ last_op' = "on_layer_selection_changed")
          => UNCHANGED tracker_sets
       /\ pc' \in {"idle", "closed"} => ~_updating_selection']_vars

\* The restoring write of a close: its selection-change event has been
\* delivered with the flag set and the sets are as they were.
C26_Witness ==
    /\ pc = "closeEvent"
    /\ last_op = "on_layer_selection_changed"
    /\ _updating_selection
    /\ ~sel_event
    /\ highlighted_features # {}
    /\ highlighted_features # original_selection
    /\ layer_selection = original_selection

\* The plugin's steps that end in open_selection_dialog, and those that
\* end in open_selection_dock.
DialogOpeners == {"open_selection_dialog", "convert_to_dialog"}
DockOpeners == {"open_selection_dock", "convert_to_dock"}

\* C28: an open for a layer that has a registered table of the same kind
\* only shows that table again, its sets untouched; a table is constructed
\* only into a free place of its dict, which then holds it, and only when
\* the host's selection is not empty.
C28_OneTablePerLayer ==
    [][\A layer_id \in LayerIds :
          /\ (last_op' = "open_selection_dialog"
                /\ layer_id \in DOMAIN selection_dialogs)
             => /\ opened' = "show"
                /\ selection_dialogs' =
                     [selection_dialogs EXCEPT ![layer_id].isVisible = TRUE]
          /\ (last_op' = "open_selection_dock"
                /\ layer_id \in DOMAIN selection_docks)
             => /\ opened' = "show"
                /\ selection_docks' =
                     [selection_docks EXCEPT ![layer_id].isVisible = TRUE]
          /\ (last_op' \in DialogOpeners /\ opened' = "constructed")
             => /\ layer_id \notin DOMAIN selection_dialogs
                /\ layer_id \in DOMAIN selection_dialogs'
                /\ layer_selection' # {}
          /\ (last_op' \in DockOpeners /\ opened' = "constructed")
             => /\ layer_id \notin DOMAIN selection_docks
                /\ layer_id \in DOMAIN selection_docks'
                /\ layer_selection' # {}
          /\ (last_op' \in DialogOpeners /\ opened' # "constructed")
             => DOMAIN selection_dialogs' = DOMAIN selection_dialogs
          /\ (last_op' \in DockOpeners /\ opened' # "constructed")
             => DOMAIN selection_docks' = DOMAIN selection_docks]_vars

\* The layer has a dialog with highlighted rows and a dock, and a further
\* open of the dialog has only shown it again.
C28_Witness ==
    /\ last_op = "open_selection_dialog"
    /\ opened = "show"
    /\ \E layer_id \in LayerIds :
          /\ layer_id \in DOMAIN selection_dialogs
          /\ layer_id \in DOMAIN selection_docks
          /\ selection_dialogs[layer_id].highlighted_features # {}

\* C29: after the dock is closed, or the dialog is closed through its
\* close event or rejected, the dict of that kind holds no entry for the
\* layer, and an open of that kind that follows, the host's selection not
\* empty, constructs a table whose sets are those of a new tracker.
C29_ClosedTableLeavesRegistry ==
    [][\A layer_id \in LayerIds :
          /\ last_op' \in {"dialog_closeEvent", "dialog_reject"}
             => layer_id \notin DOMAIN selection_dialogs'
          /\ last_op' = "dock_closeEvent"
             => layer_id \notin DOMAIN selection_docks'
          /\ (last_op \in {"dialog_closeEvent", "dialog_reject"}
                /\ last_op' = "open_selection_dialog"
                /\ layer_selection # {})
             => /\ opened' = "constructed"
                /\ selection_dialogs'[layer_id] = shown(layer_selection)
          /\ (last_op = "dock_closeEvent"
                /\ last_op' = "open_selection_dock"
                /\ layer_selection # {})
             => /\ opened' = "constructed"
                /\ selection_docks'[layer_id] = shown(layer_selection)]_vars

\* C30: a conversion of a table whose original_selection is not empty, no
\* table of the other kind being registered for the layer, constructs a
\* table of the other kind with the same original_selection and no
\* highlights, in both directions.
C30_ConvertPreservesBase ==
    [][\A layer_id \in LayerIds :
          /\ (last_op' = "convert_to_dock"
                /\ layer_id \notin DOMAIN selection_docks
                /\ selection_dialogs[layer_id].original_selection # {})
             => /\ opened' = "constructed"
                /\ selection_docks'[layer_id] =
                     shown(selection_dialogs[layer_id].original_selection)
          /\ (last_op' = "convert_to_dialog"
                /\ layer_id \notin DOMAIN selection_dialogs
                /\ selection_docks[layer_id].original_selection # {})
             => /\ opened' = "constructed"
                /\ selection_dialogs'[layer_id] =
                     shown(selection_docks[layer_id].original_selection)]_vars

====
